---- MODULE Spec2Model ----
(***************************************************************************)
(* Model of the salin translator bot (src/main.go).                        *)
(*                                                                         *)
(* main() loads the configuration, creates the Discord session, registers  *)
(* DiscordHandler.reactionAdd and waits for a signal.  The Discord client  *)
(* runtime invokes the registered handler once per "reaction added" event, *)
(* each invocation in a goroutine of its own.  A handler blocks in three   *)
(* places: s.ChannelMessage (message fetch), client.Do inside              *)
(* translateWithOpenAI (translation call) and s.ChannelMessageSendEmbed    *)
(* (reply post).  An action of the model is the code a handler runs        *)
(* between two such blocking points.                                       *)
(***************************************************************************)
EXTENDS Integers, Sequences, FiniteSets, TLC

(* Bounds of the model. *)
NumEvents == 2      \* reaction events delivered in one run
MaxChoices == 2     \* completion candidates in one service response

Events == 1..NumEvents

(***************************************************************************)
(* Constants of the program.                                               *)
(***************************************************************************)
US == "flag_us"
GB == "flag_gb"
ES == "flag_es"
ThumbsUp == "thumbsup"

\* main.go:24-37, restricted to three of its eleven entries
flagToLang == (US :> "English") @@ (GB :> "English") @@ (ES :> "Spanish")

Model == "gpt-3.5-turbo"
Endpoint == "https://api.openai.com/v1/chat/completions"
EmbedColor == 49151   \* 0x00BFFF
StatusOK == 200

(***************************************************************************)
(* The environment: identities, channels, messages, service responses.     *)
(***************************************************************************)
BotID == "bot"
UserIDs == {BotID, "u1"}
EmojiNames == {US, GB, ES, ThumbsUp}

Absent == "absent"           \* an environment variable that is not set
NoValue == [none |-> TRUE]   \* a nil pointer / a local not yet assigned
NoError == [kind |-> "nil"]  \* a nil error

\* What the platform stores: message M of channel C is Alice's "Hello there",
\* message N of channel D is an image-only message of Bob's, with no text.
Stored ==
  (<<"C", "M">> :> [Author |-> [Username |-> "Alice", Avatar |-> "a1"], Content |-> "Hello there"]) @@
  (<<"D", "N">> :> [Author |-> [Username |-> "Bob", Avatar |-> "b1"], Content |-> ""])

\* A reaction is added to a message that exists when the reaction is made.
ReactionEvents ==
  {[UserID |-> u, Emoji |-> em, ChannelID |-> t[1], MessageID |-> t[2]] :
     u \in UserIDs, em \in EmojiNames, t \in DOMAIN Stored}

\* The candidates of a decoded response: the first is "Hola" or empty, every
\* later one is "Adios".
Contents == {"Hola", ""}

Choices ==
  {<<>>} \cup {[i \in 1..n |-> IF i = 1 THEN c ELSE "Adios"] : n \in 1..MaxChoices, c \in Contents}

\* A response body either decodes into OpenAIResponse (a sequence of choices)
\* or does not decode.
Bodies ==
  {[decodes |-> FALSE, choices |-> <<>>]} \cup
  {[decodes |-> TRUE, choices |-> c] : c \in Choices}

\* What client.Do can return: a transport error, or a response.
HTTPResults ==
  {[failed |-> TRUE, StatusCode |-> 0, Body |-> [decodes |-> FALSE, choices |-> <<>>]]} \cup
  {[failed |-> FALSE, StatusCode |-> s, Body |-> b] : s \in {StatusOK, 500}, b \in Bodies}

VARIABLES
  env,        \* the process environment: DISCORD_TOKEN, OPENAI_TOKEN
  phase,      \* where main() is
  config,     \* Config, once loaded
  sigs,       \* signals delivered to sc so far
  session,    \* the Discord session dg: none, created, open, closed
  registered, \* whether reactionAdd has been registered on the session
  pc,         \* where each handler invocation is
  ev,         \* the reaction event each invocation was given
  targetLang, \* handler local
  msg,        \* handler local
  fetches,    \* per event: the ChannelMessage calls issued
  requests,   \* per event: the HTTP requests sent to the translation service
  sends,      \* per event: the ChannelMessageSendEmbed calls issued
  logs,       \* per event: the log.Printf error lines
  posts       \* the messages that appeared in the channels, in order

vars == <<env, phase, config, sigs, session, registered, pc, ev, targetLang, msg, fetches, requests,
          sends, logs, posts>>

mainVars == <<env, phase, config, sigs, session, registered>>
handlerVars == <<pc, ev, targetLang, msg, fetches, requests, sends, logs, posts>>

(***************************************************************************)
(* translateWithOpenAI (main.go:145-195), in the two halves that the       *)
(* blocking client.Do call separates.                                      *)
(***************************************************************************)
Error(text, code) == [kind |-> text, code |-> code]

\* Mutant: the two arguments of the format string are exchanged.
Prompt_Swapped(text, lang) ==
  "Translate the following text to " \o text
    \o ". Only respond with the translation, nothing else: " \o lang

\* main.go:148
Prompt(text, lang) ==
  "Translate the following text to " \o lang
    \o ". Only respond with the translation, nothing else: " \o text

\* main.go:150-159
RequestBody(text, lang) ==
  [model |-> Model, messages |-> <<[role |-> "user", content |-> Prompt(text, lang)]>>]

\* main.go:161-172: json.Marshal of a struct of strings and http.NewRequest
\* with a constant method and URL have no failing input, so the request is
\* always built.
BuildRequest(text, lang, openAIToken) ==
  [method |-> "POST",
   url |-> Endpoint,
   contentType |-> "application/json",
   authorization |-> "Bearer " \o openAIToken,
   body |-> RequestBody(text, lang)]

\* Mutant: a response without candidates is returned as an empty translation.
translateWithOpenAI_NoChoicesOk(result) ==
  IF result.failed
    THEN [translation |-> "", err |-> Error("error making request", 0)]
  ELSE IF result.StatusCode # StatusOK
    THEN [translation |-> "", err |-> Error("unexpected status code", result.StatusCode)]
  ELSE IF ~result.Body.decodes
    THEN [translation |-> "", err |-> Error("error decoding response", 0)]
  ELSE IF Len(result.Body.choices) = 0
    THEN [translation |-> "", err |-> NoError]
  ELSE [translation |-> result.Body.choices[1], err |-> NoError]

\* Mutant: the body is decoded before the status is looked at.
translateWithOpenAI_DecodeFirst(result) ==
  IF result.failed
    THEN [translation |-> "", err |-> Error("error making request", 0)]
  ELSE IF result.Body.decodes /\ Len(result.Body.choices) > 0
    THEN [translation |-> result.Body.choices[1], err |-> NoError]
  ELSE IF result.StatusCode # StatusOK
    THEN [translation |-> "", err |-> Error("unexpected status code", result.StatusCode)]
  ELSE IF ~result.Body.decodes
    THEN [translation |-> "", err |-> Error("error decoding response", 0)]
  ELSE [translation |-> "", err |-> Error("no translation returned", 0)]

\* Mutant: the last candidate is returned instead of the first.
translateWithOpenAI_LastChoice(result) ==
  IF result.failed
    THEN [translation |-> "", err |-> Error("error making request", 0)]
  ELSE IF result.StatusCode # StatusOK
    THEN [translation |-> "", err |-> Error("unexpected status code", result.StatusCode)]
  ELSE IF ~result.Body.decodes
    THEN [translation |-> "", err |-> Error("error decoding response", 0)]
  ELSE IF Len(result.Body.choices) = 0
    THEN [translation |-> "", err |-> Error("no translation returned", 0)]
  ELSE [translation |-> result.Body.choices[Len(result.Body.choices)], err |-> NoError]

\* Mutant: the decode error is dropped, and the candidates are counted first.
translateWithOpenAI_CountBeforeDecode(result) ==
  IF result.failed
    THEN [translation |-> "", err |-> Error("error making request", 0)]
  ELSE IF result.StatusCode # StatusOK
    THEN [translation |-> "", err |-> Error("unexpected status code", result.StatusCode)]
  ELSE IF Len(result.Body.choices) = 0
    THEN [translation |-> "", err |-> Error("no translation returned", 0)]
  ELSE IF ~result.Body.decodes
    THEN [translation |-> "", err |-> Error("error decoding response", 0)]
  ELSE [translation |-> result.Body.choices[1], err |-> NoError]

\* main.go:175-194: what the function returns, given what client.Do returned
\* for the request of BuildRequest
translateWithOpenAI(result) ==
  IF result.failed
    THEN [translation |-> "", err |-> Error("error making request", 0)]
  ELSE IF result.StatusCode # StatusOK
    THEN [translation |-> "", err |-> Error("unexpected status code", result.StatusCode)]
  ELSE IF ~result.Body.decodes
    THEN [translation |-> "", err |-> Error("error decoding response", 0)]
  ELSE IF Len(result.Body.choices) = 0
    THEN [translation |-> "", err |-> Error("no translation returned", 0)]
  ELSE [translation |-> result.Body.choices[1], err |-> NoError]

(***************************************************************************)
(* DiscordHandler.reactionAdd (main.go:62-111).                            *)
(***************************************************************************)
\* Mutant: a handler continues only once the handlers of all earlier events
\* have returned.
Runnable_Serial(e) ==
  /\ phase = "running"
  /\ \A o \in Events : o < e => pc[o] \in {"idle", "done"}

\* main.go:128-130: the session is created with its defaults, under which the
\* client runtime runs every invocation of a registered handler in a goroutine
\* of its own; an invocation runs whenever the process is up.
Runnable(e) == phase = "running"

\* Mutant: the self-filter is missing.
IsSelf_Never(r) == FALSE

\* main.go:64
IsSelf(r) == r.UserID = BotID

\* Mutant: the resolved language is kept in a variable that the handlers in
\* flight share.
Lookup_Shared(name) ==
  LET inFlight == {o \in Events : pc[o] \in {"fetch", "http", "send", "hung"}}
  IN IF name \notin DOMAIN flagToLang
       THEN [targetLang |-> "", ok |-> FALSE]
     ELSE IF inFlight # {}
       THEN [targetLang |-> targetLang[CHOOSE o \in inFlight : TRUE], ok |-> TRUE]
     ELSE [targetLang |-> flagToLang[name], ok |-> TRUE]

\* Mutant: the result of the lookup is used without looking at ok.
Lookup_AlwaysOk(name) ==
  [targetLang |-> IF name \in DOMAIN flagToLang THEN flagToLang[name] ELSE "", ok |-> TRUE]

\* main.go:69: the two-valued map lookup; a missing key gives the zero value
Lookup(name) ==
  IF name \in DOMAIN flagToLang
    THEN [targetLang |-> flagToLang[name], ok |-> TRUE]
    ELSE [targetLang |-> "", ok |-> FALSE]

\* Mutant: the empty-content filter is missing.
EmptyContent_Never(m) == FALSE

\* main.go:82
EmptyContent(m) == m.Content = ""

\* Mutant: a request equal to one already sent is answered from a cache.
ClientDo_Cached(sent, req) ==
  IF \E o \in Events : \E i \in DOMAIN requests[o] : requests[o][i] = req
    THEN sent
    ELSE Append(sent, req)

\* Mutant: the request is sent a second time.
ClientDo_Twice(sent, req) == Append(Append(sent, req), req)

\* main.go:174-175: one client.Do per call of translateWithOpenAI
ClientDo(sent, req) == Append(sent, req)

\* main.go:94-104
Embed(m, translation, lang) ==
  [Author |-> [Name |-> m.Author.Username, IconURL |-> m.Author.Avatar],
   Description |-> translation,
   Footer |-> "Translated to " \o lang,
   Color |-> EmbedColor]

\* the handler returns; its locals are gone
Return(e) ==
  /\ pc' = [pc EXCEPT ![e] = "done"]
  /\ targetLang' = [targetLang EXCEPT ![e] = NoValue]
  /\ msg' = [msg EXCEPT ![e] = NoValue]

LogPrintf(e, line, err) ==
  logs' = [logs EXCEPT ![e] = Append(@, [line |-> line, err |-> err])]

\* Mutant: the return after the fetch error is missing, and the handler goes
\* on to the translation.
FetchFailed_Continue(e, err) ==
  /\ LogPrintf(e, "Error fetching message", err)
  /\ requests' = [requests EXCEPT ![e] =
       ClientDo(@, BuildRequest("", targetLang[e], config.OpenAIToken))]
  /\ pc' = [pc EXCEPT ![e] = "http"]
  /\ UNCHANGED <<targetLang, msg>>

\* main.go:76-79
FetchFailed(e, err) ==
  /\ LogPrintf(e, "Error fetching message", err)
  /\ Return(e)
  /\ UNCHANGED requests

\* Mutant: a failed translation is reported in the channel.
TranslateFailed_Reply(e, err) ==
  /\ LogPrintf(e, "Error translating text", err)
  /\ sends' = [sends EXCEPT ![e] =
       Append(@, [ChannelID |-> ev[e].ChannelID,
                  Embed |-> Embed(msg[e], err.kind, targetLang[e])])]
  /\ pc' = [pc EXCEPT ![e] = "send"]
  /\ UNCHANGED <<targetLang, msg>>

\* main.go:88-91
TranslateFailed(e, err) ==
  /\ LogPrintf(e, "Error translating text", err)
  /\ Return(e)
  /\ UNCHANGED sends

\* Mutant: an empty translation is treated like an empty source message.
Reply_SkipEmpty(e, translation) ==
  IF translation = ""
    THEN /\ Return(e)
         /\ UNCHANGED <<sends, logs>>
    ELSE /\ sends' = [sends EXCEPT ![e] =
              Append(@, [ChannelID |-> ev[e].ChannelID,
                         Embed |-> Embed(msg[e], translation, targetLang[e])])]
         /\ pc' = [pc EXCEPT ![e] = "send"]
         /\ UNCHANGED <<targetLang, msg, logs>>

\* main.go:93-107
Reply(e, translation) ==
  /\ sends' = [sends EXCEPT ![e] =
       Append(@, [ChannelID |-> ev[e].ChannelID,
                  Embed |-> Embed(msg[e], translation, targetLang[e])])]
  /\ pc' = [pc EXCEPT ![e] = "send"]
  /\ UNCHANGED <<targetLang, msg, logs>>

\* main.go:62-75: the runtime invokes the handler with event r; the handler
\* runs up to the ChannelMessage call.  Events are numbered in the order in
\* which their handlers start.
reactionAdd(e, r) ==
  /\ phase = "running"
  /\ pc[e] = "idle"
  /\ \A o \in Events : o < e => pc[o] # "idle"
  /\ ev' = [ev EXCEPT ![e] = r]
  /\ IF IsSelf(r)
       THEN /\ Return(e)
            /\ UNCHANGED fetches
     ELSE IF ~Lookup(r.Emoji).ok
       THEN /\ Return(e)
            /\ UNCHANGED fetches
     ELSE /\ targetLang' = [targetLang EXCEPT ![e] = Lookup(r.Emoji).targetLang]
          /\ fetches' = [fetches EXCEPT ![e] = Append(@, <<r.ChannelID, r.MessageID>>)]
          /\ pc' = [pc EXCEPT ![e] = "fetch"]
          /\ UNCHANGED msg
  /\ UNCHANGED <<requests, sends, logs, posts>>
  /\ UNCHANGED mainVars

\* main.go:75-87 and 145-175: ChannelMessage returns, with the stored message
\* or with an error; the handler runs up to client.Do inside
\* translateWithOpenAI.
ChannelMessageReturn(e, ok) ==
  /\ Runnable(e)
  /\ pc[e] = "fetch"
  /\ LET key == fetches[e][Len(fetches[e])]
     IN IF ~ok
          THEN FetchFailed(e, Error("fetch", 0))
        ELSE IF EmptyContent(Stored[key])
          THEN /\ Return(e)
               /\ UNCHANGED <<requests, logs>>
        ELSE /\ msg' = [msg EXCEPT ![e] = Stored[key]]
             /\ requests' = [requests EXCEPT ![e] =
                  ClientDo(@, BuildRequest(Stored[key].Content, targetLang[e], config.OpenAIToken))]
             /\ pc' = [pc EXCEPT ![e] = "http"]
             /\ UNCHANGED <<targetLang, logs>>
  /\ UNCHANGED <<ev, fetches, sends, posts>>
  /\ UNCHANGED mainVars

\* main.go:175-194 and 87-107: client.Do returns; translateWithOpenAI returns;
\* the handler runs up to the ChannelMessageSendEmbed call.
HttpReturn(e, result) ==
  /\ Runnable(e)
  /\ pc[e] = "http"
  /\ LET out == translateWithOpenAI(result)
     IN IF out.err # NoError
          THEN TranslateFailed(e, out.err)
          ELSE Reply(e, out.translation)
  /\ UNCHANGED <<ev, fetches, requests, posts>>
  /\ UNCHANGED mainVars

\* main.go:174-175: the client has no timeout, so client.Do may never return.
HttpHang(e) ==
  /\ phase = "running"
  /\ pc[e] = "http"
  /\ pc' = [pc EXCEPT ![e] = "hung"]
  /\ UNCHANGED <<ev, targetLang, msg, fetches, requests, sends, logs, posts>>
  /\ UNCHANGED mainVars

\* main.go:107-111: ChannelMessageSendEmbed returns; the handler returns.  A
\* post that succeeded is in the channel; `by` records whose it is.
SendReturn(e, ok) ==
  /\ Runnable(e)
  /\ pc[e] = "send"
  /\ LET call == sends[e][Len(sends[e])]
     IN IF ok
          THEN /\ posts' = Append(posts, [ChannelID |-> call.ChannelID, Embed |-> call.Embed, by |-> e])
               /\ UNCHANGED logs
          ELSE /\ LogPrintf(e, "Error sending translation", Error("send", 0))
               /\ UNCHANGED posts
  /\ Return(e)
  /\ UNCHANGED <<ev, fetches, requests, sends>>
  /\ UNCHANGED mainVars

(***************************************************************************)
(* main (main.go:113-143).                                                 *)
(***************************************************************************)
\* Mutant: the variables are not marked required.
LoadConfig_NotRequired ==
  /\ phase = "start"
  /\ phase' = "configured"
  /\ config' = [DiscordToken |-> env.DISCORD_TOKEN, OpenAIToken |-> env.OPENAI_TOKEN]
  /\ UNCHANGED <<env, sigs, session, registered>>
  /\ UNCHANGED handlerVars

\* main.go:115-120: envconfig.Process; both variables are required
LoadConfig ==
  /\ phase = "start"
  /\ IF env.DISCORD_TOKEN = Absent \/ env.OPENAI_TOKEN = Absent
       THEN /\ phase' = "fatal"
            /\ UNCHANGED config
       ELSE /\ phase' = "configured"
            /\ config' = [DiscordToken |-> env.DISCORD_TOKEN, OpenAIToken |-> env.OPENAI_TOKEN]
  /\ UNCHANGED <<env, sigs, session, registered>>
  /\ UNCHANGED handlerVars

\* main.go:122-126
NewSession(ok) ==
  /\ phase = "configured"
  /\ phase' = IF ok THEN "session" ELSE "fatal"
  /\ session' = IF ok THEN "created" ELSE session
  /\ UNCHANGED <<env, config, sigs, registered>>
  /\ UNCHANGED handlerVars

\* main.go:128-130
AddHandler ==
  /\ phase = "session"
  /\ phase' = "registered"
  /\ registered' = TRUE
  /\ UNCHANGED <<env, config, sigs, session>>
  /\ UNCHANGED handlerVars

\* main.go:132-141: dg.Open, and on success the deferred Close and
\* signal.Notify, after which main waits on sc
Open(ok) ==
  /\ phase = "registered"
  /\ phase' = IF ok THEN "running" ELSE "fatal"
  /\ session' = IF ok THEN "open" ELSE session
  /\ UNCHANGED <<env, config, sigs, registered>>
  /\ UNCHANGED handlerVars

\* main.go:113-141: until signal.Notify is called SIGINT and SIGTERM have
\* their default effect: the process is killed where it stands
Interrupt ==
  /\ phase \in {"start", "configured", "session", "registered"}
  /\ sigs = 0
  /\ sigs' = 1
  /\ phase' = "killed"
  /\ UNCHANGED <<env, config, session, registered>>
  /\ UNCHANGED handlerVars

\* main.go:140-141: SIGINT or SIGTERM is delivered to sc, which holds one
Signal ==
  /\ phase = "running"
  /\ sigs = 0
  /\ sigs' = 1
  /\ UNCHANGED <<env, phase, config, session, registered>>
  /\ UNCHANGED handlerVars

\* main.go:142-143 and the deferred dg.Close() of line 137
Shutdown ==
  /\ phase = "running"
  /\ sigs > 0
  /\ phase' = "exited"
  /\ session' = "closed"
  /\ UNCHANGED <<env, config, sigs, registered>>
  /\ UNCHANGED handlerVars

Init ==
  /\ env \in [DISCORD_TOKEN : {Absent, "dt"}, OPENAI_TOKEN : {Absent, "ot"}]
  /\ phase = "start"
  /\ config = NoValue
  /\ sigs = 0
  /\ session = "none"
  /\ registered = FALSE
  /\ pc = [e \in Events |-> "idle"]
  /\ ev = [e \in Events |-> NoValue]
  /\ targetLang = [e \in Events |-> NoValue]
  /\ msg = [e \in Events |-> NoValue]
  /\ fetches = [e \in Events |-> <<>>]
  /\ requests = [e \in Events |-> <<>>]
  /\ sends = [e \in Events |-> <<>>]
  /\ logs = [e \in Events |-> <<>>]
  /\ posts = <<>>

Next ==
  \/ LoadConfig
  \/ \E ok \in BOOLEAN : NewSession(ok)
  \/ AddHandler
  \/ \E ok \in BOOLEAN : Open(ok)
  \/ Interrupt
  \/ Signal
  \/ Shutdown
  \/ \E e \in Events, r \in ReactionEvents : reactionAdd(e, r)
  \/ \E e \in Events, ok \in BOOLEAN : ChannelMessageReturn(e, ok)
  \/ \E e \in Events, result \in HTTPResults : HttpReturn(e, result)
  \/ \E e \in Events : HttpHang(e)
  \/ \E e \in Events, ok \in BOOLEAN : SendReturn(e, ok)

Spec == Init /\ [][Next]_vars

\* The scheduler runs every goroutine that can run, and the platform's calls
\* return; a handler whose client.Do has returned, or whose platform call has
\* returned, takes its next step.  Nothing is assumed of the events, of the
\* signal, or of the translation service, whose call may hang.
Fairness ==
  \A e \in Events :
    /\ WF_vars(\E ok \in BOOLEAN : ChannelMessageReturn(e, ok))
    /\ WF_vars(\E result \in HTTPResults : HttpReturn(e, result))
    /\ WF_vars(\E ok \in BOOLEAN : SendReturn(e, ok))

FairSpec == Spec /\ Fairness

\* main returns once a signal is in sc: its goroutine is scheduled.
MainFairness == WF_vars(Shutdown)

LifeSpec == Spec /\ MainFairness

(***************************************************************************)
(* Properties.                                                             *)
(***************************************************************************)
Handled(e) == pc[e] # "idle"
Target(e) == <<ev[e].ChannelID, ev[e].MessageID>>
PostsBy(e) == Cardinality({i \in DOMAIN posts : posts[i].by = e})
Logged(e, line) == \E i \in DOMAIN logs[e] : logs[e][i].line = line
NoCalls(e) ==
  /\ fetches[e] = <<>>
  /\ requests[e] = <<>>
  /\ sends[e] = <<>>
  /\ PostsBy(e) = 0
FetchSucceeded(e) ==
  /\ fetches[e] # <<>>
  /\ pc[e] # "fetch"
  /\ ~Logged(e, "Error fetching message")
Qualifies(e) ==
  /\ Handled(e)
  /\ ev[e].UserID # BotID
  /\ ev[e].Emoji \in DOMAIN flagToLang
  /\ FetchSucceeded(e)
  /\ Stored[Target(e)].Content # ""

\* C1: an event whose emoji is not a key of the mapping, whoever reacted, is
\* handled as a no-op: the handler has returned and has issued no message
\* fetch, no translation request and no reply post.
C1_UnsupportedEmojiNoOp ==
  \A e \in Events :
    (Handled(e) /\ ev[e].Emoji \notin DOMAIN flagToLang) =>
      (pc[e] = "done" /\ NoCalls(e) /\ logs[e] = <<>>)

C1_Witness ==
  \E e \in Events :
    /\ Handled(e)
    /\ ev[e].UserID # BotID
    /\ ev[e].Emoji = ThumbsUp
    /\ pc[e] = "done"

\* C2: an event whose reacting user is the bot itself, with a supported or an
\* unsupported emoji, is handled without any network call: no message fetch,
\* no translation request, no reply post.
C2_SelfReactionNoCalls ==
  \A e \in Events :
    (Handled(e) /\ ev[e].UserID = BotID) =>
      (pc[e] = "done" /\ NoCalls(e) /\ logs[e] = <<>>)

C2_Witness ==
  \E e, f \in Events :
    /\ Handled(e) /\ ev[e].UserID = BotID /\ ev[e].Emoji = ES
    /\ Handled(f) /\ ev[f].UserID = BotID /\ ev[f].Emoji = ThumbsUp
    /\ pc[e] = "done" /\ pc[f] = "done"

\* C3: for an event with a supported emoji on a message whose text is empty,
\* the translation client is never invoked and no reply is posted.
C3_EmptyContentNoOp ==
  \A e \in Events :
    (Handled(e) /\ Stored[Target(e)].Content = "") =>
      /\ requests[e] = <<>>
      /\ sends[e] = <<>>
      /\ PostsBy(e) = 0
      /\ pc[e] \in {"fetch", "done"}

C3_Witness ==
  \E e \in Events :
    /\ Handled(e)
    /\ ev[e].UserID # BotID
    /\ ev[e].Emoji \in DOMAIN flagToLang
    /\ Stored[Target(e)].Content = ""
    /\ FetchSucceeded(e)
    /\ pc[e] = "done"

\* C4: a reply is posted for an event only if its fetch succeeded, the content
\* was not empty and the translation client returned success; after a fetch
\* failure or a translation-client error nothing is sent to the channel; at
\* most one reply post is attempted per event.
C4_State ==
  \A e \in Events :
    /\ Len(sends[e]) <= 1
    /\ PostsBy(e) <= Len(sends[e])
    /\ sends[e] # <<>> =>
         /\ Qualifies(e)
         /\ Len(requests[e]) = 1
         /\ ~Logged(e, "Error translating text")
    /\ (Logged(e, "Error fetching message") \/ Logged(e, "Error translating text")) =>
         /\ sends[e] = <<>>
         /\ PostsBy(e) = 0
         /\ pc[e] = "done"
    /\ \A i \in DOMAIN posts :
         posts[i].by = e =>
           /\ sends[e] = <<[ChannelID |-> posts[i].ChannelID, Embed |-> posts[i].Embed]>>
           /\ logs[e] = <<>>

C4_ReplyOnlyOnSuccess ==
  [][/\ C4_State'
     /\ \A e \in Events :
          sends'[e] # sends[e] =>
            \E result \in HTTPResults :
              /\ HttpReturn(e, result)
              /\ translateWithOpenAI(result).err = NoError
              /\ ~result.failed
              /\ result.StatusCode = StatusOK
              /\ result.Body.decodes
              /\ Len(result.Body.choices) >= 1]_vars

C4_Witness ==
  \E e, f \in Events :
    /\ pc[e] = "done"
    /\ Logged(e, "Error translating text")
    /\ sends[e] = <<>>
    /\ pc[f] = "done"
    /\ Logged(f, "Error fetching message")
    /\ posts = <<>>

\* C5: a qualifying reaction (not the bot's, supported emoji, fetch succeeded,
\* content not empty) makes exactly one translation-service call, whether the
\* call succeeds or fails; any other reaction makes none; no call is retried.
C5_OneTranslationCall ==
  \A e \in Events :
    /\ Len(requests[e]) <= 1
    /\ Qualifies(e) => Len(requests[e]) = 1
    /\ (Handled(e) /\ ~Qualifies(e)) => Len(requests[e]) = 0

C5_Witness ==
  \E e, f \in Events :
    /\ Qualifies(e) /\ pc[e] = "done" /\ Logged(e, "Error translating text")
    /\ Len(requests[e]) = 1
    /\ Qualifies(f) /\ pc[f] = "done" /\ PostsBy(f) = 1
    /\ Len(requests[f]) = 1

TranslateError(text, code) == [line |-> "Error translating text", err |-> [kind |-> text, code |-> code]]

\* C6: when the service answers 200 with a decodable body that holds no
\* candidate, the translation client returns the error "no translation
\* returned" (the handler logs it and returns) and no reply is sent or posted
\* for that event, then or later.
C6_ZeroCandidatesIsError ==
  [][/\ \A e \in Events, result \in HTTPResults :
          ( /\ HttpReturn(e, result)
            /\ ~result.failed
            /\ result.StatusCode = StatusOK
            /\ result.Body.decodes
            /\ result.Body.choices = <<>> ) =>
          ( /\ logs'[e] = Append(logs[e], TranslateError("no translation returned", 0))
            /\ pc'[e] = "done"
            /\ sends'[e] = <<>>
            /\ posts' = posts )
     /\ \A e \in Events :
          (\E i \in DOMAIN logs'[e] : logs'[e][i] = TranslateError("no translation returned", 0)) =>
            ( /\ pc'[e] = "done"
              /\ sends'[e] = <<>>
              /\ \A i \in DOMAIN posts' : posts'[i].by # e )]_vars

C6_Witness ==
  \E e \in Events :
    /\ Qualifies(e)
    /\ pc[e] = "done"
    /\ logs[e] = <<TranslateError("no translation returned", 0)>>
    /\ Len(requests[e]) = 1
    /\ sends[e] = <<>>
    /\ PostsBy(e) = 0

\* C7: for every status other than 200 the translation client returns the
\* error "unexpected status code" carrying that status, whatever the body
\* holds: the body is not decoded and no candidate of it becomes a reply.
C7_StatusErrorCarriesCode ==
  [][\A e \in Events, result \in HTTPResults :
       ( /\ HttpReturn(e, result)
         /\ ~result.failed
         /\ result.StatusCode # StatusOK ) =>
       ( /\ logs'[e] = Append(logs[e], TranslateError("unexpected status code", result.StatusCode))
         /\ pc'[e] = "done"
         /\ sends'[e] = <<>>
         /\ posts' = posts )]_vars

C7_Witness ==
  \E e \in Events :
    /\ Qualifies(e)
    /\ pc[e] = "done"
    /\ logs[e] = <<TranslateError("unexpected status code", 500)>>
    /\ sends[e] = <<>>
    /\ PostsBy(e) = 0

ExpectedEmbed(e, text) ==
  [Author |-> [Name |-> Stored[Target(e)].Author.Username,
               IconURL |-> Stored[Target(e)].Author.Avatar],
   Description |-> text,
   Footer |-> "Translated to " \o flagToLang[ev[e].Emoji],
   Color |-> EmbedColor]

\* C8: when the translation of a qualifying reaction succeeds, the reply is
\* sent to the channel of the reaction event, its description is the first
\* candidate's content as received, its footer is "Translated to L" for the
\* language L the mapping gives the event's emoji, and its author name is the
\* name of the author of the source message; what is posted is what was sent.
C8_ReplyContent ==
  [][/\ \A e \in Events, result \in HTTPResults :
          ( /\ HttpReturn(e, result)
            /\ ~result.failed
            /\ result.StatusCode = StatusOK
            /\ result.Body.decodes
            /\ Len(result.Body.choices) >= 1 ) =>
          sends'[e] = <<[ChannelID |-> ev[e].ChannelID,
                         Embed |-> ExpectedEmbed(e, result.Body.choices[1])]>>
     /\ \A e \in Events :
          SendReturn(e, TRUE) =>
            posts' = Append(posts, [ChannelID |-> ev[e].ChannelID,
                                    Embed |-> sends[e][1].Embed,
                                    by |-> e])
     /\ \A i \in DOMAIN posts' :
          LET e == posts'[i].by
          IN /\ posts'[i].ChannelID = ev'[e].ChannelID
             /\ posts'[i].Embed.Footer = "Translated to " \o flagToLang[ev'[e].Emoji]
             /\ posts'[i].Embed.Author.Name = Stored[<<ev'[e].ChannelID, ev'[e].MessageID>>].Author.Username]_vars

C8_Witness ==
  \E e \in Events :
    /\ ev[e] = [UserID |-> "u1", Emoji |-> ES, ChannelID |-> "C", MessageID |-> "M"]
    /\ Stored[Target(e)].Content = "Hello there"
    /\ posts = <<[ChannelID |-> "C",
                  Embed |-> [Author |-> [Name |-> "Alice", IconURL |-> "a1"],
                             Description |-> "Hola",
                             Footer |-> "Translated to Spanish",
                             Color |-> EmbedColor],
                  by |-> e]>>

PairDone(a, b) ==
  /\ a # b
  /\ pc[a] = "done" /\ pc[b] = "done"
  /\ ev[a].UserID # BotID /\ ev[b].UserID # BotID
  /\ ev[a].Emoji = US /\ ev[b].Emoji = GB
  /\ Target(a) = Target(b)
  /\ Stored[Target(a)].Content # ""
  /\ logs[a] = <<>> /\ logs[b] = <<>>

\* C9: two reactions with the US and the UK flag on the same message, both
\* handled to the end with every call succeeding, have each made exactly one
\* fetch, one translation call and one reply post, whatever the interleaving:
\* two replies in all, each "Translated to English"; the two replies can
\* appear in either order.
C9_TwoFlagsTwoReplies ==
  \A a, b \in Events :
    PairDone(a, b) =>
      /\ \A e \in {a, b} :
           /\ Len(fetches[e]) = 1
           /\ Len(requests[e]) = 1
           /\ Len(sends[e]) = 1
           /\ PostsBy(e) = 1
      /\ Cardinality({i \in DOMAIN posts : posts[i].by \in {a, b}}) = 2
      /\ \A i \in DOMAIN posts :
           posts[i].by \in {a, b} => posts[i].Embed.Footer = "Translated to English"

\* the reply to the later event is posted before the reply to the earlier one
C9_Witness ==
  \E a, b \in Events :
    /\ a < b
    /\ PairDone(a, b)
    /\ \E i, j \in DOMAIN posts : i < j /\ posts[i].by = b /\ posts[j].by = a

\* the replies in the order of the events
C9_InOrder ==
  \E a, b \in Events :
    /\ a < b
    /\ PairDone(a, b)
    /\ \E i, j \in DOMAIN posts : i < j /\ posts[i].by = a /\ posts[j].by = b

InFlight(e) == pc[e] \in {"fetch", "http", "send"}

\* C10: whatever happens to the other events (a failed fetch, a failed
\* translation, a failed post, a translation call that never returns), a
\* handler in flight whose own translation call does not hang runs to its end
\* unless the process is stopped by a signal, and if none of its own calls
\* failed its reply is posted; the process stops running only on a signal.
C10_Isolation ==
  /\ \A e \in Events :
       [](InFlight(e) => <>(pc[e] \in {"done", "hung"} \/ phase = "exited"))
  /\ [](\A e \in Events :
          (pc[e] = "done" /\ Qualifies(e) /\ logs[e] = <<>>) => PostsBy(e) = 1)
  /\ [](phase = "exited" => sigs > 0)
  /\ [](phase = "fatal" => \A e \in Events : pc[e] = "idle")

\* the translation call of an event hangs, and an event handled after it has
\* its reply posted
C10_Witness ==
  \E a, b \in Events :
    /\ a < b
    /\ pc[a] = "hung"
    /\ pc[b] = "done"
    /\ Qualifies(b)
    /\ PostsBy(b) = 1

CredentialAbsent == env.DISCORD_TOKEN = Absent \/ env.OPENAI_TOKEN = Absent
NothingHandled == \A e \in Events : pc[e] = "idle"
Terminated == phase \in {"fatal", "killed", "exited"}

PcSteps ==
  {<<"idle", "done">>, <<"idle", "fetch">>, <<"fetch", "done">>, <<"fetch", "http">>,
   <<"http", "done">>, <<"http", "hung">>, <<"http", "send">>, <<"send", "done">>}

\* C12: within one event the steps follow one another: the fetch is issued by
\* the step that passed the self-filter and the emoji filter; the translation
\* call is issued only by the step in which the fetch returned successfully
\* with non-empty content; the reply post is issued only by the step in which
\* the translation call returned successfully; a step issues a call only when
\* the previous call of the event has returned, and never two calls at once.
C12_StrictSequence ==
  [][\A e \in Events :
       /\ pc'[e] # pc[e] => <<pc[e], pc'[e]>> \in PcSteps
       /\ fetches'[e] # fetches[e] =>
            /\ pc[e] = "idle" /\ pc'[e] = "fetch"
            /\ ev'[e].UserID # BotID
            /\ ev'[e].Emoji \in DOMAIN flagToLang
            /\ fetches'[e] = <<<<ev'[e].ChannelID, ev'[e].MessageID>>>>
            /\ requests'[e] = <<>> /\ sends'[e] = <<>>
       /\ requests'[e] # requests[e] =>
            /\ pc[e] = "fetch" /\ pc'[e] = "http"
            /\ ChannelMessageReturn(e, TRUE)
            /\ Stored[Target(e)].Content # ""
            /\ Len(fetches[e]) = 1 /\ fetches'[e] = fetches[e]
            /\ Len(requests'[e]) = 1
            /\ logs'[e] = <<>>
            /\ sends'[e] = <<>>
       /\ sends'[e] # sends[e] =>
            /\ pc[e] = "http" /\ pc'[e] = "send"
            /\ \E result \in HTTPResults :
                 HttpReturn(e, result) /\ translateWithOpenAI(result).err = NoError
            /\ Len(requests[e]) = 1 /\ requests'[e] = requests[e]
            /\ Len(sends'[e]) = 1
            /\ logs'[e] = <<>>
       /\ (\E i \in DOMAIN posts' : i > Len(posts) /\ posts'[i].by = e) =>
            /\ pc[e] = "send" /\ pc'[e] = "done"
            /\ Len(sends[e]) = 1 /\ sends'[e] = sends[e]
            /\ Len(posts') = Len(posts) + 1]_vars

\* an event handled to its reply while the handler of another waits for the
\* translation service
C12_Witness ==
  \E e, f \in Events :
    /\ pc[e] = "done" /\ PostsBy(e) = 1
    /\ Len(fetches[e]) = 1 /\ Len(requests[e]) = 1 /\ Len(sends[e]) = 1
    /\ pc[f] = "http" /\ Len(fetches[f]) = 1 /\ Len(requests[f]) = 1 /\ sends[f] = <<>>

\* the outcome the claim gives a result of the one HTTP call, by precedence
Outcome(result) ==
  IF result.failed THEN "error making request"
  ELSE IF result.StatusCode # StatusOK THEN "unexpected status code"
  ELSE IF ~result.Body.decodes THEN "error decoding response"
  ELSE IF Len(result.Body.choices) = 0 THEN "no translation returned"
  ELSE "success"

\* C13: an invocation of the translation client returns one outcome, by
\* precedence: transport failure, then non-200 status, then undecodable body,
\* then zero candidates, and success only for a 200 response that decodes with
\* at least one candidate; the invocation has made exactly one HTTP call when
\* it returns and makes no further one, whatever the outcome.  (The request
\* is always built: json.Marshal and http.NewRequest have no failing input
\* here, so the first rank of the claim, a construction failure, never occurs.)
C13_OneOutcomeByPrecedence ==
  [][/\ \A e \in Events, result \in HTTPResults :
          HttpReturn(e, result) =>
            /\ Len(requests[e]) = 1
            /\ requests'[e] = requests[e]
            /\ pc'[e] \in {"done", "send"}
            /\ IF Outcome(result) = "success"
                 THEN /\ logs'[e] = logs[e]
                      /\ pc'[e] = "send"
                      /\ Len(sends'[e]) = 1
                      /\ sends'[e][1].Embed.Description = result.Body.choices[1]
                 ELSE /\ logs'[e] = Append(logs[e],
                           TranslateError(Outcome(result),
                             IF Outcome(result) = "unexpected status code"
                               THEN result.StatusCode ELSE 0))
                      /\ pc'[e] = "done"
                      /\ sends'[e] = sends[e]
     /\ \A e \in Events :
          /\ pc'[e] \in {"http", "hung", "send"} => Len(requests'[e]) = 1
          /\ Len(requests'[e]) <= 1
          /\ Len(logs'[e]) <= 1]_vars

\* one invocation ended on an undecodable body, another on a transport failure
C13_Witness ==
  \E e, f \in Events :
    /\ pc[e] = "done" /\ logs[e] = <<TranslateError("error decoding response", 0)>>
    /\ Len(requests[e]) = 1
    /\ pc[f] = "done" /\ logs[f] = <<TranslateError("error making request", 0)>>
    /\ Len(requests[f]) = 1

\* What one handling of event r does at each of its steps, as a function of r
\* and of the response the step received, and of nothing else.
History(e) ==
  [pc |-> pc[e], fetches |-> fetches[e], requests |-> requests[e],
   sends |-> sends[e], logs |-> logs[e]]

ExpectedRequest(r) ==
  [method |-> "POST",
   url |-> Endpoint,
   contentType |-> "application/json",
   authorization |-> "Bearer " \o "ot",
   body |-> [model |-> Model,
             messages |-> <<[role |-> "user",
                             content |-> "Translate the following text to "
                               \o flagToLang[r.Emoji]
                               \o ". Only respond with the translation, nothing else: "
                               \o Stored[<<r.ChannelID, r.MessageID>>].Content]>>]]

AfterStart(r) ==
  IF r.UserID = BotID \/ r.Emoji \notin DOMAIN flagToLang
    THEN [pc |-> "done", fetches |-> <<>>, requests |-> <<>>, sends |-> <<>>, logs |-> <<>>]
    ELSE [pc |-> "fetch", fetches |-> <<<<r.ChannelID, r.MessageID>>>>, requests |-> <<>>,
          sends |-> <<>>, logs |-> <<>>]

AfterFetch(r, ok) ==
  IF ~ok
    THEN [AfterStart(r) EXCEPT !.pc = "done",
            !.logs = <<[line |-> "Error fetching message", err |-> [kind |-> "fetch", code |-> 0]]>>]
  ELSE IF Stored[<<r.ChannelID, r.MessageID>>].Content = ""
    THEN [AfterStart(r) EXCEPT !.pc = "done"]
  ELSE [AfterStart(r) EXCEPT !.pc = "http", !.requests = <<ExpectedRequest(r)>>]

AfterTranslate(r, result) ==
  IF Outcome(result) = "success"
    THEN [AfterFetch(r, TRUE) EXCEPT !.pc = "send",
            !.sends = <<[ChannelID |-> r.ChannelID,
                         Embed |-> [Author |-> [Name |-> Stored[<<r.ChannelID, r.MessageID>>].Author.Username,
                                                IconURL |-> Stored[<<r.ChannelID, r.MessageID>>].Author.Avatar],
                                    Description |-> result.Body.choices[1],
                                    Footer |-> "Translated to " \o flagToLang[r.Emoji],
                                    Color |-> EmbedColor]]>>]
    ELSE [AfterFetch(r, TRUE) EXCEPT !.pc = "done",
            !.logs = <<TranslateError(Outcome(result),
                         IF Outcome(result) = "unexpected status code"
                           THEN result.StatusCode ELSE 0)>>]

OthersUntouched(e) ==
  \A f \in Events \ {e} :
    /\ ev'[f] = ev[f]
    /\ History(f)' = History(f)
    /\ targetLang'[f] = targetLang[f]
    /\ msg'[f] = msg[f]
    /\ \A i \in DOMAIN posts : posts[i].by = f => posts'[i] = posts[i]
    /\ \A i \in DOMAIN posts' : posts'[i].by = f => i \in DOMAIN posts

\* C14: no state survives across events.  Each step of the handling of an
\* event leaves the event with the calls, log lines and reply that the event
\* and the responses to its own calls determine, whatever other events were
\* handled before or are in flight; a step of one event changes nothing of
\* another event; a handler that has returned keeps no local.  (The mapping
\* flagToLang is assigned nowhere after its initialisation, main.go:24-37.)
C14_NoStateAcrossEvents ==
  [][/\ \A e \in Events :
          /\ \A r \in ReactionEvents :
               reactionAdd(e, r) => (History(e)' = AfterStart(r) /\ OthersUntouched(e))
          /\ \A ok \in BOOLEAN :
               ChannelMessageReturn(e, ok) =>
                 (History(e)' = AfterFetch(ev[e], ok) /\ OthersUntouched(e))
          /\ \A result \in HTTPResults :
               HttpReturn(e, result) =>
                 (History(e)' = AfterTranslate(ev[e], result) /\ OthersUntouched(e))
          /\ \A ok \in BOOLEAN :
               SendReturn(e, ok) =>
                 /\ OthersUntouched(e)
                 /\ sends'[e] = sends[e]
                 /\ posts' = IF ok THEN Append(posts, [ChannelID |-> ev[e].ChannelID,
                                                       Embed |-> sends[e][1].Embed,
                                                       by |-> e])
                                   ELSE posts
          /\ pc'[e] = "done" => (targetLang'[e] = NoValue /\ msg'[e] = NoValue)]_vars

\* the same event handled twice, the second time after the first, with the
\* same calls and the same reply
C14_Witness ==
  \E a, b \in Events :
    /\ a < b
    /\ ev[a] = ev[b]
    /\ pc[a] = "done" /\ pc[b] = "done"
    /\ PostsBy(a) = 1 /\ PostsBy(b) = 1
    /\ History(a) = History(b)
    /\ posts[1].Embed = posts[2].Embed

PromptOf(e) == requests[e][1].body.messages[1].content
LangOf(e) == flagToLang[ev[e].Emoji]
TextOf(e) == Stored[Target(e)].Content

\* C15: every translation request carries exactly one message, of role
\* "user", whose content is "Translate the following text to L. Only respond
\* with the translation, nothing else: T" for the language L of the event's
\* emoji and the text T of the reacted message; hence two events whose emojis
\* map to the same language and whose messages have the same text send the
\* same prompt.
C15_PromptShape ==
  /\ \A e \in Events :
       requests[e] # <<>> =>
         /\ Len(requests[e][1].body.messages) = 1
         /\ requests[e][1].body.messages[1].role = "user"
         /\ PromptOf(e) = "Translate the following text to " \o LangOf(e)
              \o ". Only respond with the translation, nothing else: " \o TextOf(e)
         /\ requests[e][1].body.model = Model
  /\ \A a, b \in Events :
       (/\ requests[a] # <<>> /\ requests[b] # <<>>
        /\ LangOf(a) = LangOf(b)
        /\ TextOf(a) = TextOf(b)) => PromptOf(a) = PromptOf(b)

\* two different flags of one language on one message, both requests sent
C15_Witness ==
  \E a, b \in Events :
    /\ requests[a] # <<>> /\ requests[b] # <<>>
    /\ ev[a].Emoji = US /\ ev[b].Emoji = GB
    /\ Target(a) = Target(b)
    /\ PromptOf(a) = "Translate the following text to English. Only respond with the translation, nothing else: Hello there"
    /\ PromptOf(a) = PromptOf(b)

\* C16: the router does not inspect the translation.  Whenever the
\* translation call succeeds (status 200, decodable body, at least one
\* candidate) the handler attempts exactly one reply whose description is the
\* first candidate verbatim, the empty string included, and logs nothing; a
\* send that succeeds posts that embed.
C16_ReplyNotValidated ==
  [][\A e \in Events :
       /\ \A result \in HTTPResults :
            (HttpReturn(e, result) /\ Outcome(result) = "success") =>
              /\ pc'[e] = "send"
              /\ Len(sends'[e]) = 1
              /\ sends'[e][1].ChannelID = ev[e].ChannelID
              /\ sends'[e][1].Embed.Description = result.Body.choices[1]
              /\ logs'[e] = logs[e]
       /\ SendReturn(e, TRUE) =>
            /\ Len(posts') = Len(posts) + 1
            /\ posts'[Len(posts')].Embed.Description = sends[e][1].Embed.Description
            /\ posts'[Len(posts')].by = e]_vars

\* a reply with an empty description, posted for a message that has text
C16_Witness ==
  \E i \in DOMAIN posts :
    /\ posts[i].Embed.Description = ""
    /\ Qualifies(posts[i].by)
    /\ TextOf(posts[i].by) = "Hello there"
    /\ logs[posts[i].by] = <<>>

====
